---- MODULE Spec2Model ----
(***************************************************************************)
(* Interactive upload/download server (src/upload-server-tui/              *)
(* upload-server.py): the HTTP handler, the file list model, the command   *)
(* generator and the dashboard, over a small POSIX-like filesystem.        *)
(*                                                                         *)
(* Strings are sequences of tokens: "/" is the path separator, every other *)
(* token is an indivisible piece of text ("uploads", "x", "..", " ", "a"). *)
(* A filesystem is a function from canonical absolute paths (sequences of  *)
(* names, <<>> being "/") to nodes.                                        *)
(***************************************************************************)
EXTENDS Integers, Sequences, FiniteSets, TLC

VARIABLES
    fs,               \* the filesystem: canonical path -> node
    clock,            \* the time: it advances with every write request and operator change
    backlog,          \* connections waiting in the listen queue of the socket
    h,                \* the server thread: the request it is handling, its position
    lastPut,          \* the last write request answered 200 whose file was not rewritten since
    files,            \* FileListModel.files
    table,            \* first column of the DataTable rows
    cursor_row,       \* DataTable.cursor_row
    highlighted,      \* a RowHighlighted message is waiting in the app's queue
    mode,             \* CommandsPanel.mode
    current_filename, \* CommandsPanel.current_filename
    upload_filename,  \* CommandsPanel.upload_filename
    content,          \* what CommandsPanel.update() was last given
    modal,            \* the FilenameInputScreen instances on the screen stack, each with
                      \* the panel as it was when the screen was pushed
    running,          \* the process has not exited
    main              \* main(): its arguments and environment, where it is, the server thread

vars == <<fs, clock, backlog, h, lastPut, files, table, cursor_row, highlighted, mode,
          current_filename, upload_filename, content, modal, running, main>>

srvVars == <<backlog, h, lastPut>>
uiVars == <<files, table, cursor_row, highlighted, mode, current_filename,
            upload_filename, content, modal>>
panelVars == <<mode, current_filename, upload_filename, content>>

----------------------------------------------------------------------------
(* Bounds *)

MaxBody == 1      \* longest request body, in bytes
MaxClock == 1     \* number of write requests accepted
MaxOps == 2       \* number of changes the operator makes to the served tree
MaxBacklog == 1   \* connections that may wait in the listen queue
MaxModal == 1     \* dialogs that may be stacked

\* request bodies are made of the byte a; files put there by the operator hold b
Bytes == {"a"}

SeqsUpTo(S, n) == UNION {[1..k -> S] : k \in 0..n}

Bodies == SeqsUpTo(Bytes, MaxBody)

----------------------------------------------------------------------------
(* Python values *)

\* None, where a str is expected
NoneVal == <<"<None>">>

\* the truth value of an Optional[str]: None and "" are false
Truthy(s) == s # NoneVal /\ s # <<>>

RECURSIVE LStrip(_, _)
\* str.lstrip(chars) for a single character
LStrip(s, ch) ==
    IF s # <<>> /\ Head(s) = ch THEN LStrip(Tail(s), ch) ELSE s

RECURSIVE RStrip(_, _)
RStrip(s, ch) ==
    IF s # <<>> /\ s[Len(s)] = ch THEN RStrip(SubSeq(s, 1, Len(s) - 1), ch) ELSE s

\* str.strip() over the one whitespace token of the model
Strip(s) == RStrip(LStrip(s, " "), " ")

----------------------------------------------------------------------------
(* The filesystem *)

Root == <<>>

\* BASE_DIR after os.path.abspath, as a string and as the directory it names
BASE_DIR == <<"/", "srv">>
BasePath == <<"srv">>
UploadsPath == <<"srv", "uploads">>

Dir(m) == [kind |-> "dir", data |-> <<>>, mtime |-> 0, mode |-> m]
File(d, t, m) == [kind |-> "file", data |-> d, mtime |-> t, mode |-> m]

\* the result of a failed path walk (ENOENT, ENOTDIR)
Err == <<"!">>

IsDirAt(f, p) == p \in DOMAIN f /\ f[p].kind = "dir"
IsFileAt(f, p) == p \in DOMAIN f /\ f[p].kind = "file"

Parent(p) == IF p = <<>> THEN <<>> ELSE SubSeq(p, 1, Len(p) - 1)

\* the components of a path string; repeated separators count once
Components(s) == SelectSeq(s, LAMBDA t : t # "/")

RECURSIVE WalkFrom(_, _, _)
\* path resolution: every component is looked up in a directory that exists
WalkFrom(f, cur, comps) ==
    IF comps = <<>> THEN cur
    ELSE IF ~IsDirAt(f, cur) THEN Err
    ELSE IF Head(comps) = ".." THEN WalkFrom(f, Parent(cur), Tail(comps))
    ELSE WalkFrom(f, cur \o <<Head(comps)>>, Tail(comps))

\* the canonical path an absolute path string names, or Err; the last component
\* need not exist, unless the string ends with a separator
ResolvePath(f, s) ==
    LET p == WalkFrom(f, Root, Components(s))
    IN  IF p = Err THEN Err
        ELSE IF s # <<>> /\ s[Len(s)] = "/" /\ ~IsDirAt(f, p) THEN Err
        ELSE p

\* os.path.join(a, b)
OsPathJoin(a, b) ==
    IF b # <<>> /\ Head(b) = "/" THEN b
    ELSE IF a = <<>> \/ a[Len(a)] = "/" THEN a \o b
    ELSE a \o <<"/">> \o b

\* os.path.basename(s): what follows the last separator
OsPathBasename(s) ==
    LET seps == {i \in 1..Len(s) : s[i] = "/"}
    IN  IF seps = {} THEN s
        ELSE SubSeq(s, (CHOOSE i \in seps : \A j \in seps : j <= i) + 1, Len(s))

OsPathExists(f, s) == ResolvePath(f, s) \in DOMAIN f
OsPathIsdir(f, s) == IsDirAt(f, ResolvePath(f, s))
OsPathIsfile(f, s) == IsFileAt(f, ResolvePath(f, s))

RECURSIVE MakedirsFrom(_, _, _)
MakedirsFrom(f, cur, comps) ==
    IF comps = <<>> THEN f
    ELSE LET p == cur \o <<Head(comps)>>
         IN  IF p \in DOMAIN f
             THEN MakedirsFrom(f, p, Tail(comps))
             ELSE MakedirsFrom([q \in DOMAIN f \cup {p} |->
                                   IF q = p THEN Dir("rw") ELSE f[q]],
                               p, Tail(comps))

\* os.makedirs(s, exist_ok=True) raises when a component is a regular file
MakedirsOk(f, s) ==
    \A i \in 1..Len(Components(s)) :
        LET p == SubSeq(Components(s), 1, i)
        IN  p \in DOMAIN f => f[p].kind = "dir"

\* os.makedirs(s, exist_ok=True): missing directories are created, parents first
Makedirs(f, s) == MakedirsFrom(f, Root, Components(s))

\* open(s, "wb") succeeds on a new name in a directory and on a writable file
OpenWbOk(f, s) ==
    LET p == ResolvePath(f, s)
    IN  /\ p # Err
        /\ ~IsDirAt(f, p)
        /\ p \in DOMAIN f => f[p].mode = "rw"

\* open(s, "wb"): the file is created or truncated at once
OpenWb(f, s, now) ==
    LET p == ResolvePath(f, s)
    IN  [q \in DOMAIN f \cup {p} |->
            IF q = p THEN File(<<>>, now, "rw") ELSE f[q]]

\* f.write(data) and the close that flushes it, on the file opened at p
WriteAt(f, p, data, now) ==
    IF IsFileAt(f, p) THEN [f EXCEPT ![p] = File(data, now, f[p].mode)] ELSE f

\* open(s, "rb") succeeds on a readable regular file
OpenRbOk(f, s) ==
    LET p == ResolvePath(f, s) IN IsFileAt(f, p) /\ f[p].mode = "rw"

ReadAll(f, s) == f[ResolvePath(f, s)].data

----------------------------------------------------------------------------
(* File list model *)

\* the order in which os.listdir yields the names of a directory
DirOrder == <<"y", "uploads", "x">>

OsListdirOk(f, s) == OsPathIsdir(f, s) /\ f[ResolvePath(f, s)].mode = "rw"

OsListdir(f, s) ==
    SelectSeq(DirOrder, LAMBDA n : (ResolvePath(f, s) \o <<n>>) \in DOMAIN f)

\* hashlib.md5 of a byte string: one digest per content
Md5(data) == <<"md5:">> \o data

\* FileListModel.calculate_md5
calculate_md5(f, filepath) ==
    IF OpenRbOk(f, filepath) THEN Md5(ReadAll(f, filepath)) ELSE <<"error">>

\* the dict appended for one regular file
FileInfo(f, name, filepath) ==
    [name |-> name,
     size |-> Len(f[ResolvePath(f, filepath)].data),
     mtime |-> f[ResolvePath(f, filepath)].mtime,
     md5 |-> calculate_md5(f, filepath)]

RECURSIVE ScanDir(_, _, _, _)
\* one of the two loops of refresh: the regular files of directory d, in
\* listing order, each named prefix + filename
ScanDir(f, d, prefix, names) ==
    IF names = <<>> THEN <<>>
    ELSE LET filename == <<Head(names)>>
             filepath == OsPathJoin(d, filename)
             rest == ScanDir(f, d, prefix, Tail(names))
         IN  IF OsPathIsfile(f, filepath)
             THEN <<FileInfo(f, prefix \o filename, filepath)>> \o rest
             ELSE rest

RECURSIVE InsertByMtime(_, _)
\* e goes behind every entry that is at least as new
InsertByMtime(e, s) ==
    IF s = <<>> THEN <<e>>
    ELSE IF Head(s).mtime >= e.mtime THEN <<Head(s)>> \o InsertByMtime(e, Tail(s))
    ELSE <<e>> \o s

RECURSIVE InsertBeforeEqual(_, _)
\* e goes before the entries of its own age
InsertBeforeEqual(e, s) ==
    IF s = <<>> THEN <<e>>
    ELSE IF Head(s).mtime > e.mtime THEN <<Head(s)>> \o InsertBeforeEqual(e, Tail(s))
    ELSE <<e>> \o s

RECURSIVE SortThenReverse(_)
\* an ascending sort that is reversed afterwards: entries of one age end up in
\* the reverse of the scan order
SortThenReverse(s) ==
    IF s = <<>> THEN <<>>
    ELSE InsertBeforeEqual(s[Len(s)], SortThenReverse(SubSeq(s, 1, Len(s) - 1)))

RECURSIVE SortNewestFirst(_)
\* files.sort(key=mtime, reverse=True): stable, newest first
SortNewestFirst(s) ==
    IF s = <<>> THEN <<>>
    ELSE InsertByMtime(s[Len(s)], SortNewestFirst(SubSeq(s, 1, Len(s) - 1)))

UploadsDir(base) == OsPathJoin(base, <<"uploads">>)

\* a scan that a failing hash computation aborts like any other error
RefreshRaisesOnHashFailure(f, base) ==
    \/ ~OsListdirOk(f, base)
    \/ /\ OsPathExists(f, UploadsDir(base)) /\ OsPathIsdir(f, UploadsDir(base))
       /\ ~OsListdirOk(f, UploadsDir(base))
    \/ \E p \in DOMAIN f : IsFileAt(f, p) /\ f[p].mode # "rw"

\* an exception is raised inside the try block of refresh
RefreshRaises(f, base) ==
    \/ ~OsListdirOk(f, base)
    \/ /\ OsPathExists(f, UploadsDir(base)) /\ OsPathIsdir(f, UploadsDir(base))
       /\ ~OsListdirOk(f, UploadsDir(base))

\* a scan that lists the files of uploads/ by their bare filename
ScanFilesBareNames(f, base) ==
    SortNewestFirst(
        ScanDir(f, base, <<>>, OsListdir(f, base))
        \o (IF OsPathExists(f, UploadsDir(base)) /\ OsPathIsdir(f, UploadsDir(base))
            THEN ScanDir(f, UploadsDir(base), <<>>, OsListdir(f, UploadsDir(base)))
            ELSE <<>>))

\* the list refresh builds when nothing is raised
ScanFiles(f, base) ==
    SortNewestFirst(
        ScanDir(f, base, <<>>, OsListdir(f, base))
        \o (IF OsPathExists(f, UploadsDir(base)) /\ OsPathIsdir(f, UploadsDir(base))
            THEN ScanDir(f, UploadsDir(base), <<"uploads", "/">>,
                         OsListdir(f, UploadsDir(base)))
            ELSE <<>>))

\* FileListModel.refresh: self.files afterwards
RefreshFiles(f, base, old) ==
    IF ~OsPathExists(f, base) THEN old
    ELSE IF RefreshRaises(f, base) THEN old
    ELSE ScanFiles(f, base)

\* a scan that appends to the list kept from the scan before
RefreshReturnAppending(f, base, old) ==
    IF ~OsPathExists(f, base) THEN <<>>
    ELSE IF RefreshRaises(f, base) THEN old
    ELSE old \o ScanFiles(f, base)

\* FileListModel.refresh: the list it returns
RefreshReturn(f, base, old) ==
    IF ~OsPathExists(f, base) THEN <<>>
    ELSE RefreshFiles(f, base, old)

----------------------------------------------------------------------------
(* Command generator *)

IP == <<"10.10.14.5">>
PORT == <<"8000">>

Url(ip, port, filename) == <<"http://">> \o ip \o <<":">> \o port \o <<"/">> \o filename

\* a generator that requests the file by its base name
generate_commands_basename_url(ip, port, filename) ==
    LET outfile == OsPathBasename(filename)
        url == Url(ip, port, outfile)
    IN  [url |-> url,
         wget |-> <<"wget ">> \o url \o <<" -O ">> \o outfile,
         iwr_short |-> <<"iwr -uri ">> \o url \o <<" -Outfile ">> \o outfile,
         iwr_full |-> <<"Invoke-WebRequest -Uri ">> \o url \o <<" -Outfile ">> \o outfile,
         certutil |-> <<"certutil.exe -urlcache -split -f ">> \o url \o <<" ">> \o outfile]

\* CommandGenerator.generate_commands
generate_commands(ip, port, filename) ==
    LET url == Url(ip, port, filename)
        outfile == OsPathBasename(filename)
    IN  [url |-> url,
         wget |-> <<"wget ">> \o url \o <<" -O ">> \o outfile,
         iwr_short |-> <<"iwr -uri ">> \o url \o <<" -Outfile ">> \o outfile,
         iwr_full |-> <<"Invoke-WebRequest -Uri ">> \o url \o <<" -Outfile ">> \o outfile,
         certutil |-> <<"certutil.exe -urlcache -split -f ">> \o url \o <<" ">> \o outfile]

\* CommandGenerator.generate_upload_commands
generate_upload_commands(ip, port, filename) ==
    LET url == Url(ip, port, filename)
    IN  [url |-> url,
         curl_put |-> <<"curl.exe -X PUT --upload-file ">> \o filename \o <<" ">> \o url,
         curl_post |-> <<"curl.exe -X POST --data-binary @">> \o filename \o <<" ">> \o url,
         wget_put |-> <<"wget --method=PUT --body-file=">> \o filename \o <<" ">> \o url,
         wget_post |-> <<"wget --method=POST --body-file=">> \o filename \o <<" ">> \o url,
         ps_put |-> <<"Invoke-WebRequest -Uri ">> \o url \o <<" -Method PUT -InFile ">> \o filename,
         ps_post |-> <<"Invoke-WebRequest -Uri ">> \o url \o <<" -Method POST -InFile ">> \o filename]

----------------------------------------------------------------------------
(* Widgets *)

NoFilesRow == <<"(No files found)">>

RECURSIVE IndexOfName(_, _, _)
\* the first index (from 0) at or after i of the entry named n, or -1
IndexOfName(fl, n, i) ==
    IF i >= Len(fl) THEN -1
    ELSE IF fl[i + 1].name = n THEN i
    ELSE IndexOfName(fl, n, i + 1)

\* FileBrowser.get_selected_file
get_selected_file(fl, row) ==
    IF fl = <<>> THEN NoneVal
    ELSE IF 0 <= row /\ row < Len(fl) THEN fl[row + 1].name
    ELSE NoneVal

\* a table that leaves the cursor where clear() put it
TargetRowZero(fl, selected_filename) == 0

\* refresh_files: the row the cursor is moved to in a non-empty list
TargetRow(fl, selected_filename) ==
    IF Truthy(selected_filename) /\ IndexOfName(fl, selected_filename, 0) >= 0
    THEN IndexOfName(fl, selected_filename, 0)
    ELSE 0

\* refresh_files: the first column of the rows added to the cleared table
TableRows(fl) ==
    IF fl = <<>> THEN <<NoFilesRow>> ELSE [i \in 1..Len(fl) |-> fl[i].name]

\* refresh_files: where the cursor is afterwards (clear() puts it on row 0)
CursorAfterRefresh(fl, selected_filename) ==
    IF fl = <<>> THEN 0 ELSE TargetRow(fl, selected_filename)

Panel == [mode |-> mode, current_filename |-> current_filename,
          upload_filename |-> upload_filename, content |-> content]

DownloadText(ip, port, filename) ==
    LET c == generate_commands(ip, port, filename)
    IN  <<<<"[bold cyan]">> \o filename \o <<"[/bold cyan]">>, c.url, <<>>,
          c.wget, c.iwr_short, c.iwr_full, c.certutil>>

UploadText(ip, port, filename) ==
    LET c == generate_upload_commands(ip, port, filename)
    IN  <<<<"[bold cyan]">> \o filename \o <<"[/bold cyan]">>,
          <<"[dim](Upload Mode - Press Esc to return)[/dim]">>, <<>>,
          c.curl_put, c.curl_post, c.wget_put, c.wget_post, c.ps_put, c.ps_post>>

NoFileText == <<<<"No file selected">>>>

\* a panel that follows the selection in every mode
update_commands_any_mode(p, filename) ==
    IF ~Truthy(filename)
    THEN [p EXCEPT !.current_filename = filename, !.content = NoFileText]
    ELSE [p EXCEPT !.current_filename = filename,
                   !.content = DownloadText(IP, PORT, filename)]

\* CommandsPanel.update_commands
update_commands(p, filename) ==
    IF p.mode # "download" THEN p
    ELSE IF ~Truthy(filename)
    THEN [p EXCEPT !.current_filename = filename, !.content = NoFileText]
    ELSE [p EXCEPT !.current_filename = filename,
                   !.content = DownloadText(IP, PORT, filename)]

\* CommandsPanel.show_upload_commands
show_upload_commands(p, filename) ==
    [p EXCEPT !.mode = "upload", !.upload_filename = filename,
              !.content = UploadText(IP, PORT, filename)]

\* CommandsPanel.show_download_commands
show_download_commands(p) ==
    update_commands([p EXCEPT !.mode = "download"], p.current_filename)

\* a dialog that hands over the text as typed
on_input_submitted_verbatim(value) ==
    IF value # <<>> THEN value ELSE NoneVal

\* FilenameInputScreen.on_input_submitted: the value the screen is dismissed with
on_input_submitted(value) ==
    IF Strip(value) # <<>> THEN Strip(value) ELSE NoneVal

\* a callback that shows upload commands for whatever the screen was dismissed with
handle_filename_input_unguarded(p, filename) == show_upload_commands(p, filename)

\* UploadServerApp.handle_filename_input
handle_filename_input(p, filename) ==
    IF Truthy(filename) THEN show_upload_commands(p, filename) ELSE p

\* UploadServerApp.action_return_to_download
action_return_to_download(p) ==
    IF p.mode = "upload" THEN show_download_commands(p) ELSE p

----------------------------------------------------------------------------
(* The process: main() and the thread it starts *)

\* a thread that outlives the process' main thread (daemon=False)
ServerThreadAliveNonDaemon == main.thread = "serving"

\* the server thread is in serve_forever; a daemon thread ends with the process
ServerThreadAlive == running /\ main.thread = "serving"

\* app.run() was called and has not returned
AppRunning == running /\ main.pc = "ui"

\* main that takes the directory as given
ArgProblemDirUnchecked(f, m) ==
    LET ip == IF Truthy(m.ip_arg) THEN m.ip_arg ELSE m.tun0
    IN  IF ~Truthy(ip) THEN <<"Error: Could not get IP address for tun0 interface.">>
        ELSE <<>>

\* main: the diagnostic printed before sys.exit(1), or <<>> when the arguments
\* pass; m.tun0 is what get_tun0_ip() returns
ArgProblem(f, m) ==
    LET ip == IF Truthy(m.ip_arg) THEN m.ip_arg ELSE m.tun0
    IN  IF ~Truthy(ip) THEN <<"Error: Could not get IP address for tun0 interface.">>
        ELSE IF ~OsPathExists(f, m.path) THEN <<"Error: Directory does not exist">>
        ELSE IF ~OsPathIsdir(f, m.path) THEN <<"Error: Path is not a directory">>
        ELSE <<>>

----------------------------------------------------------------------------
(* HTTP handler *)

Absent == <<"<absent>">>

Idle == [pc |-> "idle", op |-> "none", target |-> <<>>, length |-> 0, body |-> <<>>,
         eof |-> FALSE, path |-> Err, prev |-> Absent, status |-> 0, out |-> <<>>]

NoPut == [name |-> NoneVal, path |-> Err, body |-> <<>>]

\* request targets (self.path)
Targets == {<<"/", "x">>, <<"/", "/", "x">>, <<"/", "..", "/", "x">>,
            <<"/", "uploads", "/", "x">>}

\* values of the Content-Length header: absent, not a number, or a number
ContentLengths ==
    {[k |-> "missing", n |-> 0], [k |-> "junk", n |-> 0]}
    \cup {[k |-> "int", n |-> i] : i \in 0..MaxBody}

\* int(self.headers['Content-Length']) returns
IntOk(hdr) == hdr.k = "int"

NotFoundBody == <<"File not found.\n">>

\* what the file at path string s holds, or Absent
ContentAt(f, s) ==
    IF OsPathIsfile(f, s) THEN f[ResolvePath(f, s)].data ELSE Absent

\* the non-interactive server (src/upload-server.py) writes below BASE_DIR itself
PutPathInBase(base, target) == OsPathJoin(base, LStrip(target, "/"))

\* do_PUT: the file the request is written to
PutPath(base, target) == OsPathJoin(UploadsDir(base), LStrip(target, "/"))

\* Handler.do_PUT up to the blocking rfile.read: the header is parsed, uploads/
\* is made, the target is opened (truncated); the peer will send body
do_PUT(f, now, target, hdr, body) ==
    LET crashed == [Idle EXCEPT !.pc = "crashed", !.op = "put", !.target = target,
                                !.body = body]
        f1 == Makedirs(f, UploadsDir(BASE_DIR))
        path == PutPath(BASE_DIR, target)
    IN  IF ~IntOk(hdr) THEN [fs |-> f, h |-> crashed]
        ELSE IF ~MakedirsOk(f, UploadsDir(BASE_DIR))
        THEN [fs |-> f, h |-> [crashed EXCEPT !.length = hdr.n]]
        ELSE IF ~OpenWbOk(f1, path)
        THEN [fs |-> f1, h |-> [crashed EXCEPT !.length = hdr.n]]
        ELSE [fs |-> OpenWb(f1, path, now),
              h |-> [Idle EXCEPT !.pc = "reading", !.op = "put", !.target = target,
                                 !.length = hdr.n, !.body = body,
                                 !.path = ResolvePath(f1, path),
                                 !.prev = ContentAt(f1, path)]]

\* Handler.do_POST
do_POST(f, now, target, hdr, body) == do_PUT(f, now, target, hdr, body)

\* a resolution that looks below BASE_DIR before uploads/
GetPathBaseFirst(f, base, filename) ==
    LET uploads_path == OsPathJoin(OsPathJoin(base, <<"uploads">>), filename)
        base_path == OsPathJoin(base, filename)
    IN  IF OsPathIsfile(f, base_path) THEN base_path ELSE uploads_path

\* do_GET: the path that is served
GetPath(f, base, filename) ==
    LET uploads_path == OsPathJoin(OsPathJoin(base, <<"uploads">>), filename)
        base_path == OsPathJoin(base, filename)
    IN  IF OsPathIsfile(f, uploads_path) THEN uploads_path ELSE base_path

\* Handler.do_GET
do_GET(f, target) ==
    LET filename == LStrip(target, "/")
        path == GetPath(f, BASE_DIR, filename)
        req == [Idle EXCEPT !.op = "get", !.target = target]
    IN  IF OsPathIsfile(f, path)
        THEN IF OpenRbOk(f, path)
             THEN [req EXCEPT !.pc = "done", !.status = 200,
                              !.path = ResolvePath(f, path), !.out = ReadAll(f, path)]
             ELSE [req EXCEPT !.pc = "crashed", !.status = 200,
                              !.path = ResolvePath(f, path)]
        ELSE [req EXCEPT !.pc = "done", !.status = 404, !.out = NotFoundBody]

\* The non-interactive server (src/upload-server.py): its Handler

\* do_PUT: the file the request is written to
cli_PutPath(base, target) == OsPathJoin(base, LStrip(target, "/"))

\* Handler.do_PUT up to the blocking rfile.read: the header is parsed and the
\* target is opened (truncated); the peer will send body
cli_do_PUT(f, now, target, hdr, body) ==
    LET crashed == [Idle EXCEPT !.pc = "crashed", !.op = "put", !.target = target,
                                !.body = body]
        path == cli_PutPath(BASE_DIR, target)
    IN  IF ~IntOk(hdr) THEN [fs |-> f, h |-> crashed]
        ELSE IF ~OpenWbOk(f, path)
        THEN [fs |-> f, h |-> [crashed EXCEPT !.length = hdr.n]]
        ELSE [fs |-> OpenWb(f, path, now),
              h |-> [Idle EXCEPT !.pc = "reading", !.op = "put", !.target = target,
                                 !.length = hdr.n, !.body = body,
                                 !.path = ResolvePath(f, path),
                                 !.prev = ContentAt(f, path)]]

\* Handler.do_POST
cli_do_POST(f, now, target, hdr, body) == cli_do_PUT(f, now, target, hdr, body)

\* Handler.do_GET
cli_do_GET(f, target) ==
    LET path == OsPathJoin(BASE_DIR, LStrip(target, "/"))
        req == [Idle EXCEPT !.op = "get", !.target = target]
    IN  IF OsPathIsfile(f, path)
        THEN IF OpenRbOk(f, path)
             THEN [req EXCEPT !.pc = "done", !.status = 200,
                              !.path = ResolvePath(f, path), !.out = ReadAll(f, path)]
             ELSE [req EXCEPT !.pc = "crashed", !.status = 200,
                              !.path = ResolvePath(f, path)]
        ELSE [req EXCEPT !.pc = "done", !.status = 404, !.out = NotFoundBody]

\* a server that a failing handler takes down with it
HandlerFreeUnlessCrashed == h.pc \in {"idle", "done"}

\* the server thread is in serve_forever, between two requests
HandlerFree == h.pc \in {"idle", "done", "crashed"}

\* a peer connects; the kernel queues the connection
Connect ==
    /\ ServerThreadAlive
    /\ backlog < MaxBacklog
    /\ backlog' = backlog + 1
    /\ UNCHANGED <<fs, clock, h, lastPut, uiVars, running, main>>

\* serve_forever takes the next connection and the request is parsed
Accepting ==
    /\ ServerThreadAlive
    /\ HandlerFree
    /\ backlog > 0
    /\ backlog' = backlog - 1

\* a write request rewrites the file of the last acknowledged one
Forget(r) ==
    IF r.h.pc = "reading" /\ r.h.path = lastPut.path THEN NoPut ELSE lastPut

DoPUT ==
    /\ Accepting
    /\ clock < MaxClock
    /\ clock' = clock + 1
    /\ \E target \in Targets, hdr \in ContentLengths, body \in Bodies :
          /\ Len(body) <= hdr.n
          /\ LET r == do_PUT(fs, clock + 1, target, hdr, body)
             IN  fs' = r.fs /\ h' = r.h /\ lastPut' = Forget(r)
    /\ UNCHANGED <<uiVars, running, main>>

DoPOST ==
    /\ Accepting
    /\ clock < MaxClock
    /\ clock' = clock + 1
    /\ \E target \in Targets, hdr \in ContentLengths, body \in Bodies :
          /\ Len(body) <= hdr.n
          /\ LET r == do_POST(fs, clock + 1, target, hdr, body)
             IN  fs' = r.fs /\ h' = r.h /\ lastPut' = Forget(r)
    /\ UNCHANGED <<uiVars, running, main>>

\* rfile.read(length) returns once length bytes arrived or the peer closed
ReadReturns == Len(h.body) = h.length \/ h.eof

\* do_PUT from rfile.read on: the body is written, the file closed, 200 sent
PutFinish ==
    /\ ServerThreadAlive
    /\ h.pc = "reading"
    /\ ReadReturns
    /\ fs' = WriteAt(fs, h.path, h.body, clock)
    /\ h' = [h EXCEPT !.pc = "done", !.status = 200]
    /\ lastPut' = [name |-> LStrip(h.target, "/"), path |-> h.path, body |-> h.body]
    /\ UNCHANGED <<clock, backlog, uiVars, running, main>>

\* rfile.read or f.write raises (connection reset, disk full): what was
\* flushed so far stays in the file and the handler ends without a response
PutFail ==
    /\ ServerThreadAlive
    /\ h.pc = "reading"
    /\ \E k \in 0..Len(h.body) :
          /\ k = 0 \/ (k < Len(h.body) /\ ReadReturns)
          /\ fs' = WriteAt(fs, h.path, SubSeq(h.body, 1, k), clock)
    /\ h' = [h EXCEPT !.pc = "crashed"]
    /\ UNCHANGED <<clock, backlog, lastPut, uiVars, running, main>>

\* the peer of a stalled write closes its end
PeerClose ==
    /\ ServerThreadAlive
    /\ h.pc = "reading"
    /\ ~ReadReturns
    /\ h' = [h EXCEPT !.eof = TRUE]
    /\ UNCHANGED <<fs, clock, backlog, lastPut, uiVars, running, main>>

DoGET ==
    /\ Accepting
    /\ \E target \in Targets : h' = do_GET(fs, target)
    /\ UNCHANGED <<fs, clock, lastPut, uiVars, running, main>>

----------------------------------------------------------------------------
(* Dashboard *)

SetPanel(p) ==
    /\ mode' = p.mode
    /\ current_filename' = p.current_filename
    /\ upload_filename' = p.upload_filename
    /\ content' = p.content

\* FileBrowser.refresh_files followed by UploadServerApp.update_commands
RefreshAndUpdate ==
    LET selected_filename == get_selected_file(files, cursor_row)
        shown == RefreshReturn(fs, BASE_DIR, files)
        kept == RefreshFiles(fs, BASE_DIR, files)
        row == CursorAfterRefresh(shown, selected_filename)
    IN  /\ highlighted' = TRUE
        /\ files' = kept
        /\ table' = TableRows(shown)
        /\ cursor_row' = row
        /\ SetPanel(update_commands(Panel, get_selected_file(kept, row)))

\* UploadServerApp.auto_refresh, on the 1 s timer
AutoRefresh ==
    /\ AppRunning
    /\ UNCHANGED <<fs, clock, srvVars, modal, running, main>>
    /\ RefreshAndUpdate

\* UploadServerApp.action_refresh, key r
ActionRefresh ==
    /\ AppRunning
    /\ UNCHANGED <<fs, clock, srvVars, modal, running, main>>
    /\ RefreshAndUpdate

\* DataTable cursor keys; the table has the focus when no dialog is open
CursorDown ==
    /\ AppRunning
    /\ modal = <<>>
    /\ cursor_row + 1 < Len(table)
    /\ cursor_row' = cursor_row + 1
    /\ highlighted' = TRUE
    /\ UNCHANGED <<fs, clock, srvVars, files, table, panelVars, modal, running, main>>

CursorUp ==
    /\ AppRunning
    /\ modal = <<>>
    /\ cursor_row > 0
    /\ cursor_row' = cursor_row - 1
    /\ highlighted' = TRUE
    /\ UNCHANGED <<fs, clock, srvVars, files, table, panelVars, modal, running, main>>

\* UploadServerApp.on_data_table_row_highlighted
OnRowHighlighted ==
    /\ AppRunning
    /\ highlighted
    /\ highlighted' = FALSE
    /\ SetPanel(update_commands(Panel, get_selected_file(files, cursor_row)))
    /\ UNCHANGED <<fs, clock, srvVars, files, table, cursor_row, modal, running, main>>

\* UploadServerApp.action_upload_mode, key u (a priority binding)
ActionUploadMode ==
    /\ AppRunning
    /\ Len(modal) < MaxModal
    /\ modal' = Append(modal, Panel)
    /\ UNCHANGED <<fs, clock, srvVars, files, table, cursor_row, highlighted, panelVars,
                   running, main>>

\* texts the Input may hold when Enter is pressed
Inputs == {<<>>, <<" ">>, <<"a">>, <<" ", "a">>, <<"a", " ">>}

\* Enter in the dialog with value typed: on_input_submitted dismisses the screen
\* and the callback handle_filename_input runs with the result
InputSubmittedWith(value) ==
    /\ AppRunning
    /\ modal # <<>>
    /\ SetPanel(handle_filename_input(Panel, on_input_submitted(value)))
    /\ modal' = SubSeq(modal, 1, Len(modal) - 1)
    /\ UNCHANGED <<fs, clock, srvVars, files, table, cursor_row, highlighted, running, main>>

InputSubmitted == \E value \in Inputs : InputSubmittedWith(value)

\* Escape in the dialog: on_key dismisses the screen with None
InputEscape ==
    /\ AppRunning
    /\ modal # <<>>
    /\ SetPanel(handle_filename_input(Panel, NoneVal))
    /\ modal' = SubSeq(modal, 1, Len(modal) - 1)
    /\ UNCHANGED <<fs, clock, srvVars, files, table, cursor_row, highlighted, running, main>>

\* Escape with no dialog open: the app binding return_to_download
ActionReturnToDownload ==
    /\ AppRunning
    /\ modal = <<>>
    /\ SetPanel(action_return_to_download(Panel))
    /\ UNCHANGED <<fs, clock, srvVars, files, table, cursor_row, highlighted, modal, running, main>>

\* UploadServerApp.action_quit, key q
ActionQuit ==
    /\ AppRunning
    /\ running' = FALSE
    /\ main' = [main EXCEPT !.pc = "exited", !.exit = 0]
    /\ UNCHANGED <<fs, clock, srvVars, uiVars>>

----------------------------------------------------------------------------
(* The operator's shell: files are put into and taken out of the served tree *)

OperatorPaths == {<<"srv", "uploads", "x">>, <<"srv", "uploads", "y">>}

OperatorWrite ==
    /\ running
    /\ clock < MaxOps
    /\ \E p \in OperatorPaths :
          /\ IsDirAt(fs, Parent(p))
          /\ ~IsDirAt(fs, p)
          /\ fs' = [q \in DOMAIN fs \cup {p} |->
                       IF q = p THEN File(<<"b">>, clock + 1, "rw") ELSE fs[q]]
    /\ clock' = clock + 1
    /\ UNCHANGED <<srvVars, uiVars, running, main>>

OperatorRemove ==
    /\ running
    /\ \E p \in OperatorPaths :
          /\ IsFileAt(fs, p)
          /\ fs' = [q \in DOMAIN fs \ {p} |-> fs[q]]
    /\ clock < MaxOps
    /\ clock' = clock + 1
    /\ UNCHANGED <<srvVars, uiVars, running, main>>

\* rm -r of the served directory
OperatorRemoveTree ==
    /\ running
    /\ clock < MaxOps
    /\ IsDirAt(fs, BasePath)
    /\ fs' = [q \in {p \in DOMAIN fs : Len(p) < Len(BasePath)
                                        \/ SubSeq(p, 1, Len(BasePath)) # BasePath} |-> fs[q]]
    /\ clock' = clock + 1
    /\ UNCHANGED <<srvVars, uiVars, running, main>>

\* chmod of the served directory: it can no longer be listed
OperatorLock ==
    /\ running
    /\ clock < MaxOps
    /\ IsDirAt(fs, BasePath)
    /\ fs[BasePath].mode = "rw"
    /\ fs' = [fs EXCEPT ![BasePath].mode = "none"]
    /\ clock' = clock + 1
    /\ UNCHANGED <<srvVars, uiVars, running, main>>

\* where the operator parks the served directory
AwayPath == <<"srv.away">>

\* p with the leading directory from replaced by the directory to
Rebase(p, from, to) ==
    IF Len(p) >= Len(from) /\ SubSeq(p, 1, Len(from)) = from
    THEN to \o SubSeq(p, Len(from) + 1, Len(p))
    ELSE p

\* mv of directory from to the free name to, with all that is under it
Renamed(f, from, to) ==
    [q \in {Rebase(p, from, to) : p \in DOMAIN f} |-> f[Rebase(q, to, from)]]

\* the served directory is moved out of the way
OperatorMoveAway ==
    /\ running
    /\ IsDirAt(fs, BasePath)
    /\ AwayPath \notin DOMAIN fs
    /\ fs' = Renamed(fs, BasePath, AwayPath)
    /\ UNCHANGED <<clock, srvVars, uiVars, running, main>>

\* and moved back to its place
OperatorMoveBack ==
    /\ running
    /\ IsDirAt(fs, AwayPath)
    /\ BasePath \notin DOMAIN fs
    /\ fs' = Renamed(fs, AwayPath, BasePath)
    /\ UNCHANGED <<clock, srvVars, uiVars, running, main>>

----------------------------------------------------------------------------
(* Startup *)

\* CommandsPanel.__init__
NewPanel == [mode |-> "download", current_filename |-> NoneVal,
             upload_filename |-> NoneVal, content |-> <<>>]

\* main() parses the command line; nothing was checked yet
AtStart(ip_arg, tun0, path, port_free) ==
    [pc |-> "start", ip_arg |-> ip_arg, tun0 |-> tun0, path |-> path,
     port_free |-> port_free, exit |-> -1, diag |-> <<>>, thread |-> "none", ui |-> FALSE]

\* main() has validated its arguments, the server thread listens, the app runs
Started ==
    [pc |-> "ui", ip_arg |-> IP, tun0 |-> NoneVal, path |-> BASE_DIR,
     port_free |-> TRUE, exit |-> -1, diag |-> <<>>, thread |-> "serving", ui |-> TRUE]

\* main: the address and the directory are validated
MainValidate ==
    /\ running
    /\ main.pc = "start"
    /\ IF ArgProblem(fs, main) # <<>>
       THEN /\ main' = [main EXCEPT !.pc = "exited", !.exit = 1,
                                    !.diag = ArgProblem(fs, main)]
            /\ running' = FALSE
       ELSE /\ main' = [main EXCEPT !.pc = "validated"]
            /\ UNCHANGED running
    /\ UNCHANGED <<fs, clock, srvVars, uiVars>>

\* main: server_thread.start()
MainStartThread ==
    /\ running
    /\ main.pc = "validated"
    /\ main' = [main EXCEPT !.pc = "threaded", !.thread = "started"]
    /\ UNCHANGED <<fs, clock, srvVars, uiVars, running>>

\* run_server, in the thread: uploads/ is made and the port bound; an exception
\* ends the thread with a traceback on stderr
RunServer ==
    /\ running
    /\ main.thread = "started"
    /\ IF ~MakedirsOk(fs, UploadsDir(BASE_DIR))
       THEN /\ main' = [main EXCEPT !.thread = "died", !.diag = <<"Traceback">>]
            /\ UNCHANGED fs
       ELSE /\ fs' = Makedirs(fs, UploadsDir(BASE_DIR))
            /\ main' = IF main.port_free
                       THEN [main EXCEPT !.thread = "serving"]
                       ELSE [main EXCEPT !.thread = "died", !.diag = <<"Traceback">>]
    /\ UNCHANGED <<clock, srvVars, uiVars, running>>

\* main: UploadServerApp(ip, port, base_dir).run(); the widgets are mounted
AppRun ==
    /\ running
    /\ main.pc = "threaded"
    /\ main' = [main EXCEPT !.pc = "ui", !.ui = TRUE]
    /\ files' = RefreshFiles(fs, BASE_DIR, <<>>)
    /\ table' = TableRows(RefreshReturn(fs, BASE_DIR, <<>>))
    /\ cursor_row' = 0
    /\ highlighted' = FALSE
    /\ SetPanel(update_commands(NewPanel,
                    get_selected_file(RefreshFiles(fs, BASE_DIR, <<>>), 0)))
    /\ UNCHANGED <<fs, clock, srvVars, modal, running>>

----------------------------------------------------------------------------
(* Initial states: the served directory as main() found it, uploads/ made by
   run_server, the widgets mounted *)

Tree(nodes) == [p \in {n[1] : n \in nodes} |-> (CHOOSE n \in nodes : n[1] = p)[2]]

Skeleton == {<<Root, Dir("rw")>>, <<BasePath, Dir("rw")>>, <<UploadsPath, Dir("rw")>>}

InitTrees ==
    { Tree(Skeleton),
      Tree(Skeleton \cup {<<<<"srv", "x">>, File(<<"b">>, 0, "rw")>>,
                          <<<<"srv", "uploads", "uploads">>, Dir("rw")>>,
                          <<<<"srv", "uploads", "uploads", "x">>, File(<<"b", "b">>, 0, "rw")>>}),
      Tree(Skeleton \cup {<<<<"srv", "x">>, File(<<"b">>, 0, "none")>>,
                          <<<<"srv", "uploads", "y">>, File(<<"b">>, 0, "rw")>>}) }

Init ==
    /\ fs \in InitTrees
    /\ clock = 0
    /\ backlog = 0
    /\ h = Idle
    /\ lastPut = NoPut
    /\ files = RefreshFiles(fs, BASE_DIR, <<>>)
    /\ table = TableRows(RefreshReturn(fs, BASE_DIR, <<>>))
    /\ cursor_row = 0
    /\ highlighted = FALSE
    /\ mode = "download"
    /\ upload_filename = NoneVal
    /\ current_filename = get_selected_file(RefreshFiles(fs, BASE_DIR, <<>>), 0)
    /\ content = update_commands(NewPanel,
                    get_selected_file(RefreshFiles(fs, BASE_DIR, <<>>), 0)).content
    /\ modal = <<>>
    /\ running = TRUE
    /\ main = Started

\* the transfer service
Next ==
    \/ Connect
    \/ DoPUT
    \/ DoPOST
    \/ DoGET
    \/ PutFinish
    \/ PutFail
    \/ PeerClose

Spec == Init /\ [][Next]_vars

\* the transfer service with the dashboard's timer running beside it
NextTimer ==
    \/ Next
    \/ AutoRefresh

SpecTimer == Init /\ [][NextTimer]_vars

\* the dashboard, with the operator changing the served tree
NextUI ==
    \/ AutoRefresh
    \/ ActionRefresh
    \/ CursorDown
    \/ CursorUp
    \/ OnRowHighlighted
    \/ ActionUploadMode
    \/ InputSubmitted
    \/ InputEscape
    \/ ActionReturnToDownload
    \/ OperatorWrite
    \/ OperatorRemove

SpecUI == Init /\ [][NextUI]_vars

\* trees main() may be started on: no uploads/ yet, or files put there before
MainTrees ==
    { Tree({<<Root, Dir("rw")>>, <<BasePath, Dir("rw")>>}),
      Tree(Skeleton \cup {<<<<"srv", "x">>, File(<<"b">>, 0, "rw")>>}) }

\* command lines and environments: --ip given or not, tun0 up or not, the
\* directory argument a directory, missing, or a regular file, the port free or not
MainArgs ==
    { AtStart(a[1], a[2], path, port_free) :
        a \in {<<IP, NoneVal>>, <<NoneVal, IP>>, <<NoneVal, NoneVal>>},
        path \in {BASE_DIR, <<"/", "nodir">>, <<"/", "srv", "/", "x">>},
        port_free \in BOOLEAN }

InitMain ==
    /\ fs \in MainTrees
    /\ clock = 0
    /\ backlog = 0
    /\ h = Idle
    /\ lastPut = NoPut
    /\ files = <<>>
    /\ table = <<>>
    /\ cursor_row = 0
    /\ highlighted = FALSE
    /\ mode = NewPanel.mode
    /\ current_filename = NewPanel.current_filename
    /\ upload_filename = NewPanel.upload_filename
    /\ content = NewPanel.content
    /\ modal = <<>>
    /\ running = TRUE
    /\ main \in MainArgs

\* the process from its start to its exit, with the transfer service
NextMain ==
    \/ MainValidate
    \/ MainStartThread
    \/ RunServer
    \/ AppRun
    \/ ActionQuit
    \/ Connect
    \/ DoPUT
    \/ DoPOST
    \/ DoGET
    \/ PutFinish
    \/ PutFail
    \/ PeerClose

SpecMain == InitMain /\ [][NextMain]_vars

\* the file table and the panel, with the operator changing, removing and
\* locking the served tree
NextScan ==
    \/ AutoRefresh
    \/ CursorDown
    \/ CursorUp
    \/ OnRowHighlighted
    \/ OperatorWrite
    \/ OperatorRemove
    \/ OperatorRemoveTree
    \/ OperatorLock

SpecScan == Init /\ [][NextScan]_vars

\* the file table and the panel, with the operator changing the served tree
\* and moving it away and back
NextTable ==
    \/ AutoRefresh
    \/ CursorDown
    \/ CursorUp
    \/ OnRowHighlighted
    \/ OperatorWrite
    \/ OperatorRemove
    \/ OperatorMoveAway
    \/ OperatorMoveBack

SpecTable == Init /\ [][NextTable]_vars

\* the places of the served tree a scan looks at, and what may be there when
\* the program starts: nothing, a file of some age, or a directory with a file
\* in it
Slots == {<<"srv", "x">>, <<"srv", "y">>, <<"srv", "uploads", "x">>, <<"srv", "uploads", "y">>}

SlotKinds == {<<"absent", 0>>, <<"dir", 0>>} \cup {<<"file", t>> : t \in 0..MaxClock}

SlotNodes(p, k) ==
    IF k[1] = "absent" THEN {}
    ELSE IF k[1] = "dir" THEN {<<p, Dir("rw")>>, <<p \o <<"x">>, File(<<"b">>, 0, "rw")>>}
    ELSE {<<p, File(IF p[Len(p)] = "x" THEN <<"b">> ELSE <<"b", "b">>, k[2], "rw")>>}

SnapTrees ==
    {Tree(Skeleton \cup UNION {SlotNodes(p, c[p]) : p \in Slots}) : c \in [Slots -> SlotKinds]}

\* the dashboard mounted on any of these trees
InitSnap ==
    /\ fs \in SnapTrees
    /\ clock = 0
    /\ backlog = 0
    /\ h = Idle
    /\ lastPut = NoPut
    /\ files = RefreshFiles(fs, BASE_DIR, <<>>)
    /\ table = TableRows(RefreshReturn(fs, BASE_DIR, <<>>))
    /\ cursor_row = 0
    /\ highlighted = FALSE
    /\ mode = "download"
    /\ upload_filename = NoneVal
    /\ current_filename = get_selected_file(RefreshFiles(fs, BASE_DIR, <<>>), 0)
    /\ content = update_commands(NewPanel,
                    get_selected_file(RefreshFiles(fs, BASE_DIR, <<>>), 0)).content
    /\ modal = <<>>
    /\ running = TRUE
    /\ main = Started

\* scans of these trees, with the operator removing files between them
NextSnap ==
    \/ AutoRefresh
    \/ OperatorRemove

SpecSnap == InitSnap /\ [][NextSnap]_vars

----------------------------------------------------------------------------
(* Transfer service: what the claims say of it *)

\* p is a path below <root>/uploads/
InUploads(p) ==
    Len(p) > Len(UploadsPath) /\ SubSeq(p, 1, Len(UploadsPath)) = UploadsPath

\* C1: no step of the transfer service creates, changes or removes a regular
\* file outside <root>/uploads/, whatever the request target; files put
\* directly into <root> stay as they are.
C1_WritesStayInUploads ==
    [][\A p \in DOMAIN fs \cup DOMAIN fs' :
          (~InUploads(p) /\ (IsFileAt(fs, p) \/ IsFileAt(fs', p)))
              => (p \in DOMAIN fs /\ p \in DOMAIN fs' /\ fs'[p] = fs[p])]_vars

\* the GET being answered asks for prefix + the name of the last acknowledged write
C2_Asks(prefix) == LStrip(h'.target, "/") = prefix \o lastPut.name

\* the GET is answered 200 with the body of the last acknowledged write
C2_Returned == h'.pc = "done" /\ h'.status = 200 /\ h'.out = lastPut.body

\* C2 as written: once a write of B to /n was answered 200 and n was not written
\* again, a GET of /n and a GET of /uploads/n are both answered 200 with B.
C2_RoundTripBothNames ==
    [][(DoGET /\ lastPut # NoPut /\ (C2_Asks(<<>>) \/ C2_Asks(<<"uploads", "/">>)))
          => C2_Returned]_vars

\* <root>/uploads/uploads/n, which a GET of /uploads/n tries first
C2_Shadow == OsPathJoin(OsPathJoin(UploadsDir(BASE_DIR), <<"uploads">>), lastPut.name)

\* C2 amended: once a write of B to /n was answered 200 and n was not written
\* again, a GET of /n is answered 200 with B, and so is a GET of /uploads/n
\* unless <root>/uploads/uploads/n is a regular file.
C2_RoundTrip ==
    [][(DoGET /\ lastPut # NoPut)
          => /\ C2_Asks(<<>>) => C2_Returned
             /\ (C2_Asks(<<"uploads", "/">>) /\ ~OsPathIsfile(fs, C2_Shadow))
                    => C2_Returned]_vars

\* a GET of /uploads/n has returned the non-empty body written to /n
C2_Witness ==
    /\ h.op = "get" /\ h.pc = "done" /\ h.status = 200
    /\ lastPut # NoPut
    /\ LStrip(h.target, "/") = <<"uploads", "/">> \o lastPut.name
    /\ h.out = lastPut.body
    /\ h.out # <<>>

\* C3: a GET of /x is answered with <root>/uploads/x when that is a regular
\* file, also when <root>/x exists; with <root>/x when only that is a regular
\* file; and with 404 and the text "File not found." when neither is. (The
\* body is the file's content when the file can be opened for reading.)
C3_ReadResolution ==
    [][DoGET =>
          LET filename == LStrip(h'.target, "/")
              up == OsPathJoin(UploadsDir(BASE_DIR), filename)
              bp == OsPathJoin(BASE_DIR, filename)
              Served(path) ==
                  /\ h'.status = 200
                  /\ h'.path = ResolvePath(fs, path)
                  /\ OpenRbOk(fs, path)
                        => (h'.pc = "done" /\ h'.out = fs[ResolvePath(fs, path)].data)
          IN  IF OsPathIsfile(fs, up) THEN Served(up)
              ELSE IF OsPathIsfile(fs, bp) THEN Served(bp)
              ELSE h'.pc = "done" /\ h'.status = 404 /\ h'.out = NotFoundBody]_vars

\* a GET of /x was answered from uploads/x while a different <root>/x exists
C3_Witness ==
    /\ h.op = "get" /\ h.pc = "done" /\ h.status = 200
    /\ h.target = <<"/", "x">>
    /\ IsFileAt(fs, <<"srv", "x">>)
    /\ IsFileAt(fs, <<"srv", "uploads", "x">>)
    /\ h.out = fs[<<"srv", "uploads", "x">>].data
    /\ h.out # fs[<<"srv", "x">>].data

\* the name under which a scan lists the file at p
ListedAs(p) ==
    IF Len(p) = 3 /\ SubSeq(p, 1, 2) = UploadsPath THEN <<"uploads", "/", p[3]>>
    ELSE IF Len(p) = 2 /\ SubSeq(p, 1, 1) = BasePath THEN <<p[2]>>
    ELSE NoneVal

\* entry e shows a file that holds exactly data
Shows(e, data) == e.size = Len(data) /\ e.md5 = Md5(data)

\* C4: a scan made while a write to uploads/<name> is in flight lists that
\* file with the size and hash of its complete previous content or of the
\* complete body being written, never of an empty or cut-off file.
C4_ScanSeesNoPartialWrite ==
    [][(AutoRefresh /\ h.pc = "reading" /\ InUploads(h.path))
          => \A i \in 1..Len(files') :
                files'[i].name = ListedAs(h.path)
                    => \/ Shows(files'[i], h.body)
                       \/ h.prev # Absent /\ Shows(files'[i], h.prev)]_vars

\* C5: when a write request fails after its file was opened, the file at
\* uploads/<name> is absent or holds its previous content, or holds the
\* complete body.
C5_FailedWriteLeavesNoPartialFile ==
    (h.op = "put" /\ h.pc = "crashed" /\ h.path # Err)
        => \/ IsFileAt(fs, h.path) /\ fs[h.path].data = h.body
           \/ h.prev = Absent /\ h.path \notin DOMAIN fs
           \/ h.prev # Absent /\ IsFileAt(fs, h.path) /\ fs[h.path].data = h.prev

\* C10: while the handler waits for the rest of a stalled peer's body, a
\* connection that waits in the queue can be accepted and its request answered.
C10_StalledPeerBlocksNoOne ==
    (h.pc = "reading" /\ ~ReadReturns /\ backlog > 0) => ENABLED DoGET

----------------------------------------------------------------------------
(* Dashboard: what the claims say of it *)

\* the file highlighted in the table, or None on the "(No files found)" row
HighlightedFile ==
    IF table[cursor_row + 1] = NoFilesRow THEN NoneVal ELSE table[cursor_row + 1]

\* C6: if file f is highlighted and f is still listed after a refresh (timer
\* tick or key r), the cursor is then on the row that holds f, whatever was
\* added, removed or re-ordered around it.
C6_SelectionPersists ==
    [][(AutoRefresh \/ ActionRefresh)
          => ((Truthy(HighlightedFile) /\ \E i \in 1..Len(table') : table'[i] = HighlightedFile)
                 => table'[cursor_row' + 1] = HighlightedFile)]_vars

\* the cursor is on the third row, on a file older than the one on the first
C6_Witness ==
    /\ cursor_row = 2
    /\ Len(files) = 3
    /\ table[3] = files[3].name
    /\ files[1].mtime > files[3].mtime

\* C7: when return-to-download fires in Upload mode, the panel becomes Download
\* and shows the download commands of the file highlighted at that moment.
C7_ReturnShowsHighlightedFile ==
    [][(ActionReturnToDownload /\ mode = "upload")
          => /\ mode' = "download"
             /\ content' = IF Truthy(HighlightedFile)
                           THEN DownloadText(IP, PORT, HighlightedFile)
                           ELSE NoFileText]_vars

\* in Upload mode the pending filename is a non-empty string
C8_UploadHasFilename == mode = "upload" => (Truthy(upload_filename) /\ upload_filename # NoneVal)

\* C8 as written: submitting a non-empty value v puts the panel in Upload(v)
\* and shows the upload commands for exactly v; in Upload mode the pending
\* filename is non-empty.
C8_SubmitShowsUploadVerbatim ==
    /\ []C8_UploadHasFilename
    /\ [][\A v \in Inputs :
             (v # <<>> /\ InputSubmittedWith(v))
                 => /\ mode' = "upload"
                    /\ upload_filename' = v
                    /\ content' = UploadText(IP, PORT, v)]_vars

\* C8 amended: submitting a value v that is non-empty once leading and
\* trailing whitespace is stripped puts the panel in Upload(strip(v)) and shows
\* the upload commands for strip(v), whatever the mode and the highlighted
\* file; in Upload mode the pending filename is non-empty.
C8_SubmitShowsUpload ==
    /\ []C8_UploadHasFilename
    /\ [][\A v \in Inputs :
             (Strip(v) # <<>> /\ InputSubmittedWith(v))
                 => /\ mode' = "upload"
                    /\ upload_filename' = Strip(v)
                    /\ content' = UploadText(IP, PORT, Strip(v))]_vars

\* the panel shows the upload commands for a while a file is highlighted and no
\* dialog is open
C8_Witness ==
    /\ mode = "upload"
    /\ upload_filename = <<"a">>
    /\ content = UploadText(IP, PORT, <<"a">>)
    /\ Truthy(HighlightedFile)
    /\ modal = <<>>

\* the dialog is dismissed without a filename: Escape, or Enter on an empty or
\* whitespace-only text
C9_Dismissed ==
    \/ InputEscape
    \/ \E v \in Inputs : Strip(v) = <<>> /\ InputSubmittedWith(v)

\* C9 as written: after the dialog is dismissed without a filename, mode,
\* pending upload filename, remembered download filename and displayed text are
\* what they were when the dialog was opened.
C9_DismissRestoresPanelAtOpen ==
    [][C9_Dismissed
          => [mode |-> mode', current_filename |-> current_filename',
              upload_filename |-> upload_filename', content |-> content']
                 = modal[Len(modal)]]_vars

\* C9 amended: dismissing the dialog without a filename changes none of mode,
\* pending upload filename, remembered download filename and displayed text:
\* they are what they were just before the Enter or Escape.
C9_DismissChangesNothing ==
    [][C9_Dismissed => UNCHANGED panelVars]_vars

\* a dialog opened over Upload(previous) is on the screen, the panel still as it
\* was when the dialog was opened, and Escape will dismiss it
C9_Witness ==
    /\ modal # <<>>
    /\ modal[Len(modal)].mode = "upload"
    /\ Panel = modal[Len(modal)]
    /\ ENABLED InputEscape

----------------------------------------------------------------------------
(* Failures and the process: what the claims say of them *)

\* C11: every request that fails (Content-Length missing or not a number, an
\* I/O error while the file is written or read) is answered with an HTTP error
\* response.
C11_FailuresGetErrorResponse ==
    h.pc = "crashed" => h.status \in 400..599

\* C12: when the port cannot be bound, the dashboard does not run and the
\* process, once it has exited, has exited with a non-zero status.
C12_BoundPortIsFatal ==
    (~main.port_free /\ main.thread = "died")
        => (~AppRunning /\ (main.pc = "exited" => main.exit > 0))

\* neither --ip nor tun0 gives an address
C13_NoAddress == ~Truthy(main.ip_arg) /\ ~Truthy(main.tun0)

\* the directory argument names no directory
C13_BadDirectory == ~OsPathExists(fs, main.path) \/ ~OsPathIsdir(fs, main.path)

\* C13: with no address supplied or detected, or a directory argument that is
\* missing or no directory, the process has exited with status 1 after a
\* diagnostic as soon as main has looked at its arguments; the server thread was
\* not started and the dashboard not launched.
C13_BadArgumentsAreFatal ==
    (main.pc # "start" /\ (C13_NoAddress \/ C13_BadDirectory))
        => /\ main.pc = "exited" /\ ~running
           /\ main.exit = 1
           /\ main.diag # <<>>
           /\ main.thread = "none"
           /\ ~main.ui

\* the process has exited with status 1 on a directory argument that names a
\* regular file, the address being known
C13_Witness ==
    /\ main.pc = "exited" /\ main.exit = 1
    /\ ~C13_NoAddress
    /\ OsPathExists(fs, main.path) /\ ~OsPathIsdir(fs, main.path)
    /\ main.diag = <<"Error: Path is not a directory">>
    /\ main.thread = "none" /\ ~main.ui

\* C18: after quit the process is gone and the listener with it: no connection
\* is queued or accepted, no request is read on or answered.
C18_QuitEndsService ==
    (~running /\ main.ui)
        => /\ main.pc = "exited"
           /\ ~ENABLED Next

\* quit was pressed while a request was being read and a connection waited
C18_Witness ==
    /\ ~running /\ main.ui /\ main.exit = 0
    /\ main.thread = "serving"
    /\ h.pc = "reading"
    /\ backlog > 0

----------------------------------------------------------------------------
(* Scans: what the claims say of them *)

\* C14: a scan whose enumeration of the served directory fails (the directory
\* is gone or cannot be listed) returns an empty snapshot, whatever earlier
\* scans returned: the table shows the "(No files found)" row.
C14_FailedScanIsEmpty ==
    [][(AutoRefresh /\ ~OsListdirOk(fs, BASE_DIR))
          => /\ RefreshReturn(fs, BASE_DIR, files) = <<>>
             /\ table' = <<NoFilesRow>>]_vars

\* C19: in Download mode, after every refresh (timer tick or key r) and every
\* handled row-highlight event, the panel shows the download commands of the
\* file on the cursor row, or "No file selected" when the table has no file.
C19_DownloadPanelFollowsCursor ==
    [][((AutoRefresh \/ ActionRefresh \/ OnRowHighlighted) /\ mode = "download")
          => /\ mode' = "download"
             /\ content' = IF table' = <<NoFilesRow>> THEN NoFileText
                           ELSE DownloadText(IP, PORT, table'[cursor_row' + 1])]_vars

\* a write was answered 200, no other is in flight, and the file it wrote is the
\* only regular file of the tree: the served directory was empty before it
C15_FirstWriteDone ==
    /\ lastPut # NoPut
    /\ h.pc # "reading"
    /\ \A p \in DOMAIN fs : IsFileAt(fs, p) => p = lastPut.path

\* C15: from an empty served directory, once a write of B to /n is complete, the
\* next scan reports exactly one entry, named uploads/n, with the size and the
\* hash of B, and a GET of /n is answered 200 with B.
C15_EndToEnd ==
    [][C15_FirstWriteDone
          => /\ AutoRefresh
                 => /\ Len(files') = 1
                    /\ files'[1].name = <<"uploads", "/">> \o lastPut.name
                    /\ Shows(files'[1], lastPut.body)
                    /\ table' = <<files'[1].name>>
             /\ (DoGET /\ C2_Asks(<<>>)) => C2_Returned]_vars

\* C17: two successive scans of a tree that did not change in between return
\* the same entries (names, sizes, hashes) in the same order: the scan that
\* would follow a refresh returns what the refresh returned.
C17_ScanIdempotent ==
    [][AutoRefresh
          => RefreshReturn(fs', BASE_DIR, files') = RefreshReturn(fs, BASE_DIR, files)]_vars

\* a scan made after the operator added a file listed three files, two of them
\* of the same age
C17_Witness ==
    /\ Len(files) = 3
    /\ files = ScanFiles(fs, BASE_DIR)
    /\ table = TableRows(files)
    /\ files[2].mtime = files[3].mtime

----------------------------------------------------------------------------
(* Commands and panel: what the claims say of them *)

\* u occurs in s as it stands
Embeds(u, s) == \E i \in 0..(Len(s) - Len(u)) : SubSeq(s, i + 1, i + Len(u)) = u

\* http://{address}:{port}/{filename}
C16_Expected(ip, port, filename) ==
    <<"http://">> \o ip \o <<":">> \o port \o <<"/">> \o filename

\* C16: for every address, port and listed filename the download URL is
\* http://{address}:{port}/{filename} with the filename as it is listed, and
\* each of the four download commands contains that URL; so does what the
\* panel shows in Download mode.
C16_DownloadUrlVerbatim ==
    /\ \A ip \in {IP, <<"host">>}, port \in {PORT, <<"80">>}, i \in 1..Len(files) :
          LET c == generate_commands(ip, port, files[i].name)
              u == C16_Expected(ip, port, files[i].name)
          IN  /\ c.url = u
              /\ Embeds(u, c.wget) /\ Embeds(u, c.iwr_short)
              /\ Embeds(u, c.iwr_full) /\ Embeds(u, c.certutil)
    /\ (mode = "download" /\ Truthy(current_filename))
          => /\ content[2] = C16_Expected(IP, PORT, current_filename)
             /\ \A k \in 4..7 : Embeds(content[2], content[k])

\* the panel shows http://10.10.14.5:8000/uploads/x for the listed file uploads/x
C16_Witness ==
    /\ mode = "download"
    /\ current_filename = <<"uploads", "/", "x">>
    /\ \E i \in 1..Len(files) : files[i].name = current_filename
    /\ content[2] = <<"http://", "10.10.14.5", ":", "8000", "/", "uploads", "/", "x">>
    /\ content[4] = <<"wget ", "http://", "10.10.14.5", ":", "8000", "/", "uploads", "/", "x",
                      " -O ", "x">>

\* C20: in Upload mode timer ticks, manual refreshes, cursor moves and handled
\* row-highlight events leave mode, pending upload filename and displayed
\* upload commands as they are, while a refresh still replaces the table rows
\* by the new snapshot and puts the cursor back on the highlighted file.
C20_UploadPanelIsFrozen ==
    [][(mode = "upload"
           /\ (AutoRefresh \/ ActionRefresh \/ CursorDown \/ CursorUp \/ OnRowHighlighted))
          => /\ UNCHANGED <<mode, upload_filename, content>>
             /\ content' = UploadText(IP, PORT, upload_filename)
             /\ (AutoRefresh \/ ActionRefresh)
                   => /\ table' = TableRows(RefreshReturn(fs, BASE_DIR, files))
                      /\ (Truthy(HighlightedFile)
                            /\ \E i \in 1..Len(table') : table'[i] = HighlightedFile)
                               => table'[cursor_row' + 1] = HighlightedFile]_vars

\* in Upload mode the table was refreshed: the file remembered for Download mode
\* is no longer among its rows, and the upload commands are still shown
C20_Witness ==
    /\ mode = "upload"
    /\ Truthy(current_filename)
    /\ \A i \in 1..Len(table) : table[i] # current_filename
    /\ table # <<NoFilesRow>>
    /\ content = UploadText(IP, PORT, upload_filename)

----------------------------------------------------------------------------
(* The table after a refresh: what the claims say of it *)

\* C21: after a refresh that yields a non-empty snapshot, the cursor is on row
\* 0 exactly when the file highlighted before is absent from the new snapshot,
\* or no file was highlighted before, or that file is itself now on row 0.
C21_RowZeroIff ==
    [][(AutoRefresh /\ table' # <<NoFilesRow>>)
          => (cursor_row' = 0
                 <=> \/ ~Truthy(HighlightedFile)
                     \/ ~\E i \in 1..Len(table') : table'[i] = HighlightedFile
                     \/ table'[1] = HighlightedFile)]_vars

\* C22: after every refresh the selected filename agrees with the displayed
\* table: get_selected_file returns None exactly when the table shows the
\* "(No files found)" row and otherwise the name on the highlighted row; once
\* the served directory is gone, the panel shows no commands of a file.
C22_SelectionAgreesWithTable ==
    [][AutoRefresh
          => /\ get_selected_file(files', cursor_row') = HighlightedFile'
             /\ (table' = <<NoFilesRow>> /\ mode' = "download") => content' = NoFileText]_vars

----------------------------------------------------------------------------
(* Transfer service: framing, failures and the non-interactive variant *)

\* C23: a write is answered with a success status only if exactly the declared
\* Content-Length bytes were received and stored: when the peer closes after
\* sending fewer, no success is reported and no shortened file is left.
C23_SuccessOnlyForFullBody ==
    [][(h.pc = "reading" /\ h'.pc # "reading")
          => /\ h'.status = 200 => Len(h.body) = h.length
             /\ h.eof => (h'.status # 200 /\ ~IsFileAt(fs', h.path))]_vars

----------------------------------------------------------------------------
(* Snapshots: what the claims say of them *)

\* the regular files directly under the served directory and under uploads/
C24_RegularFiles ==
    {p \in DOMAIN fs : IsFileAt(fs, p) /\ Parent(p) \in {BasePath, UploadsPath}}

\* the name under which the file at p is to be listed
C24_NameOf(p) ==
    IF Parent(p) = BasePath THEN <<p[Len(p)]>> ELSE <<"uploads", "/", p[Len(p)]>>

\* both directories can be enumerated
C24_Listable ==
    /\ IsDirAt(fs, BasePath) /\ fs[BasePath].mode = "rw"
    /\ IsDirAt(fs, UploadsPath) => fs[UploadsPath].mode = "rw"

\* C24: if computing the hash of one file fails during a scan, that entry's
\* hash is the sentinel "error" and the scan is not aborted: the snapshot still
\* holds an entry with the right name, size and hash for every other file.
C24_HashFailureIsLocal ==
    [][(AutoRefresh /\ C24_Listable)
          => \A p \in C24_RegularFiles :
                \E i \in 1..Len(files') :
                   /\ files'[i].name = C24_NameOf(p)
                   /\ files'[i].size = Len(fs[p].data)
                   /\ files'[i].md5 = IF fs[p].mode = "rw" THEN Md5(fs[p].data)
                                      ELSE <<"error">>]_vars

\* a scan made after the operator added a file lists it with its hash, beside
\* a file whose hash could not be computed
C24_Witness ==
    /\ \E i \in 1..Len(files) : files[i].md5 = <<"error">>
    /\ \E i \in 1..Len(files) : files[i].mtime > 0 /\ files[i].md5 = Md5(<<"b">>)
    /\ table = TableRows(files)

----------------------------------------------------------------------------
(* Transfer service: after a failure *)

\* C25: no per-request failure is fatal: after a handler failed (bad length,
\* unwritable target, unreadable file) the service is still up, the next
\* connection is accepted and a well-formed request on it is answered.
C25_FailureIsNotFatal ==
    h.pc = "crashed"
        => /\ ServerThreadAlive
           /\ backlog > 0
                 => /\ ENABLED (DoGET /\ h'.pc = "done" /\ h'.status \in {200, 404})
                    /\ clock < MaxClock => ENABLED (DoPUT /\ h'.pc = "reading")

\* a write failed, the next peer waits in the queue and its read is answered
C25_Witness ==
    /\ h.pc = "crashed"
    /\ h.op = "put"
    /\ backlog > 0
    /\ ENABLED (DoGET /\ h'.pc = "done" /\ h'.status = 200)

----------------------------------------------------------------------------
(* Snapshots: order and content *)

\* the place of name n in the listing order of a directory
C26_ListingPos(n) == CHOOSE i \in 1..Len(DirOrder) : DirOrder[i] = n

\* the place of entry e in the scan: the served directory first, then uploads/
C26_ScanPos(e) ==
    IF Len(e.name) = 1 THEN C26_ListingPos(e.name[1])
    ELSE Len(DirOrder) + C26_ListingPos(e.name[3])

\* C26: every snapshot returned by a scan is ordered by modification time,
\* newest first, and entries of equal modification time keep the scan order
\* (entries of the root before entries of uploads/, each in listing order).
C26_NewestFirstStable ==
    [][AutoRefresh
          => LET snap == RefreshReturn(fs, BASE_DIR, files)
             IN  \A i, j \in 1..Len(snap) :
                    i < j => \/ snap[i].mtime > snap[j].mtime
                             \/ /\ snap[i].mtime = snap[j].mtime
                                /\ C26_ScanPos(snap[i]) < C26_ScanPos(snap[j])]_vars

\* a scan listed four files: the newest one of uploads/ first, then three of one
\* age in scan order, out of alphabetical order
C26_Witness ==
    /\ highlighted
    /\ [i \in 1..Len(files) |-> files[i].name]
          = << <<"uploads", "/", "x">>, <<"y">>, <<"x">>, <<"uploads", "/", "y">> >>
    /\ files[1].mtime > files[2].mtime
    /\ files[2].mtime = files[4].mtime
    /\ table = TableRows(files)

\* C27: every snapshot of a successful scan holds exactly one entry per regular
\* file directly under the root (named by its filename) and one per regular
\* file directly under uploads/ (named uploads/ + filename), none for a
\* directory or a file nested deeper, and no two entries of the same name.
C27_ExactlyTheFlatFiles ==
    [][(AutoRefresh /\ C24_Listable)
          => LET snap == RefreshReturn(fs, BASE_DIR, files)
             IN  /\ {snap[i].name : i \in 1..Len(snap)}
                       = {C24_NameOf(p) : p \in C24_RegularFiles}
                 /\ \A i, j \in 1..Len(snap) : snap[i].name = snap[j].name => i = j
                 /\ table' = TableRows(snap)]_vars

\* a scan of a tree with a file x and a directory y in the root, a file x and
\* a directory y with a file in it in uploads/: the two files x are listed
C27_Witness ==
    /\ highlighted
    /\ IsFileAt(fs, <<"srv", "x">>) /\ IsDirAt(fs, <<"srv", "y">>)
    /\ IsFileAt(fs, <<"srv", "uploads", "x">>)
    /\ IsFileAt(fs, <<"srv", "uploads", "y", "x">>)
    /\ Len(files) = 2
    /\ table = TableRows(files)
    /\ {table[1], table[2]} = {<<"x">>, <<"uploads", "/", "x">>}

----------------------------------------------------------------------------
(* The non-interactive server beside the interactive one *)

\* C28: the non-interactive server is a strict subset of the interactive
\* transfer service: on the same served directory every GET, PUT and POST gets
\* the same response and has the same effect on the files (same stored path
\* for a write, same file resolved for a read) as in the interactive server.
C28_NonInteractiveAgrees ==
    [][/\ DoGET => h' = cli_do_GET(fs, h'.target)
       /\ DoPUT => \E hdr \in ContentLengths :
                      LET r == cli_do_PUT(fs, clock', h'.target, hdr, h'.body)
                      IN  fs' = r.fs /\ h' = r.h
       /\ DoPOST => \E hdr \in ContentLengths :
                      LET r == cli_do_POST(fs, clock', h'.target, hdr, h'.body)
                      IN  fs' = r.fs /\ h' = r.h]_vars

====
